---- MODULE Spec2Model ----
(***************************************************************************)
(* Job lifecycle of the financial document analyzer: one job submitted     *)
(* through POST /analyze-document-async (main.py), executed by the Celery  *)
(* task run_crew_task (celery_worker.py), which calls run_crew             *)
(* (worker_task.py) and the ledger (db.py), and polled through             *)
(* GET /task-status/{id} (main.py).                                        *)
(*                                                                         *)
(* The model follows ONE job: its task id and its file path are fresh      *)
(* uuid4 values (main.py:252-253, Celery's task.id), so no other job       *)
(* reads or writes this job's tracker entry, ledger record or document.    *)
(* Every step between two effects visible outside the process (a write to  *)
(* the result backend, a file operation, a ledger transaction, the engine  *)
(* call) is one action; the worker's position is pc.                       *)
(*                                                                         *)
(* The request followed is either that asynchronous submission or one      *)
(* synchronous POST /analyze-document (main.py), which runs run_crew in    *)
(* the request. SpecLedger runs the operations of db.py on the Analysis    *)
(* table by themselves, for any job_id. SpecReads adds the other read-only *)
(* endpoints to a job delivered once, SpecCrash adds worker crashes,       *)
(* SpecCrew follows the stages of Crew.kickoff and SpecStore the documents *)
(* of several jobs in the shared data directory.                           *)
(***************************************************************************)
EXTENDS Integers, Sequences, FiniteSets, TLC

\* ------------------------------------------------------------------ bounds

\* How many times the queue may deliver the job's task (at-least-once).
MaxDeliveries == 2

\* Rows the Analysis table may hold.
MaxRows == 2

\* Ticks of the clock that db.py reads.
MaxClock == 2

\* Calls of Crew.kickoff that are followed stage by stage.
MaxKickoffs == 2

\* Jobs whose documents share the data directory.
MaxJobs == 2

\* ------------------------------------------------------- program constants

\* 50 * 1024 * 1024, the upload limit of both submission endpoints.
MaxUploadBytes == 52428800

\* Form(default=...) and the replacement of a blank query.
DefaultQuery == <<"Analyze this financial document for investment insights">>

\* ------------------------------------------------------------------ inputs

\* Characters are one-element strings; a text is a sequence of characters.
Space == " "

\* Queries a client may send: empty, blank, plain, padded with blanks.
Queries == { <<>>, <<Space>>, <<"q">>, <<Space, "q", Space>> }

\* Upload names: none, wrong extension, lower and upper case .pdf.
Filenames == { <<>>, <<"r", ".txt">>, <<"r", ".pdf">>, <<"R", ".PDF">> }

\* Upload sizes in bytes: empty, 10 KB, the limit, one byte over it.
FileSizes == { 0, 10240, MaxUploadBytes, MaxUploadBytes + 1 }

\* What CrewOutput the engine may return: empty, blank, two report texts
\* (one with leading white space).
EngineTexts == { <<>>, <<Space>>, <<"r">>, <<Space, "r">> }

\* ----------------------------------------------------------- pure helpers

RECURSIVE LStrip(_)
\* str.lstrip() on a text.
LStrip(s) ==
    IF s = <<>> THEN <<>>
    ELSE IF Head(s) = Space THEN LStrip(Tail(s)) ELSE s

RECURSIVE RStrip(_)
\* str.rstrip() on a text.
RStrip(s) ==
    IF s = <<>> THEN <<>>
    ELSE IF s[Len(s)] = Space THEN RStrip(SubSeq(s, 1, Len(s) - 1)) ELSE s

\* str.strip()
Strip(s) == RStrip(LStrip(s))

\* `not query or query.strip() == ""` (main.py:261) and
\* `not query or not query.strip()` (celery_worker.py:25).
IsBlank(s) == s = <<>> \/ Strip(s) = <<>>

\* str.lower() on the extension part of an upload name.
Lower(c) == IF c = ".PDF" THEN ".pdf" ELSE IF c = "R" THEN "r" ELSE c

\* file.filename.lower().endswith(".pdf")
EndsWithPdf(name) == name # <<>> /\ Lower(name[Len(name)]) = ".pdf"

\* Variant: the query is stripped but an empty one is not replaced.
EnqueuedQueryNoDefault(q) == Strip(q)

\* The query handed to run_crew_task.delay (main.py:261-266).
EnqueuedQuery(q) == Strip(IF IsBlank(q) THEN DefaultQuery ELSE q)

\* Variant: the report text is stripped before it is stored.
ResultStrStripped(r) == Strip(r)

\* str(result) of the engine's return value (celery_worker.py:76).
ResultStr(r) == r

\* ------------------------------------------------------------------- state

VARIABLES
    hasCelery,   \* main.py _has_celery
    hasDb,       \* main.py _has_db
    hasAi,       \* main.py _has_ai
    api,         \* position of the analyze_document_async request
    http,        \* status code answered to the submission, 0 while none
    file,        \* os.path.exists(file_path)
    query,       \* the query argument of the enqueued task
    queue,       \* messages of the task waiting in the broker
    deliveries,  \* how often the task was handed to a worker
    pc,          \* position of the worker inside run_crew_task
    state,       \* result backend: AsyncResult(task_id).state
    info,        \* result backend: AsyncResult(task_id).info
    result,      \* run_crew_task's local `result`
    exc,         \* the exception being handled in run_crew_task
    ledger,      \* the Analysis row with job_id = task id
    table,       \* the Analysis table, rows in insertion order
    now,         \* datetime.now(timezone.utc), the clock db.py reads
    dbOp,        \* the last operation of db.py that was called
    poll,        \* the last answer of task_status for the task id
    lookup,      \* the last answer of another read-only endpoint
    crew,        \* Crew.kickoff: the stages of the call being made
    docs,        \* the data directory and the documents of several jobs
    obs          \* observations made along the run (no effect on the program)

vars == << hasCelery, hasDb, hasAi, api, http, file, query, queue, deliveries,
           pc, state, info, result, exc, ledger, table, now, dbOp, poll,
           lookup, crew, docs, obs >>

cfgVars == << hasCelery, hasDb, hasAi >>
apiVars == << api, http, query >>
workerVars == << pc, result, exc >>
backendVars == << state, info >>
dbVars == << table, now, dbOp >>
sideVars == << dbVars, lookup, crew, docs >>

\* Celery states this program sees.
Terminal == { "SUCCESS", "FAILURE" }

\* No value (Python None / a key that is absent).
None == << "None" >>

\* AsyncResult.info before any result was stored.
NoInfo == [ kind |-> "none", progress |-> 0, result |-> None,
            error |-> "", error_type |-> "" ]

\* meta={'progress': p, 'status': ...} of a PROGRESS checkpoint.
ProgressMeta(p) == [ NoInfo EXCEPT !.kind = "meta", !.progress = p ]

\* The dict returned by run_crew_task (celery_worker.py:94-105).
SuccessReturn(text) ==
    [ NoInfo EXCEPT !.kind = "ret", !.progress = 100, !.result = text ]

\* Variant: the failure meta also carries the result computed so far.
FailureMetaWithResult(e) ==
    [ NoInfo EXCEPT !.kind = "meta", !.progress = 0, !.result = result,
                    !.error = e.cause, !.error_type = e.error_type ]

\* meta of the FAILURE update_state calls of the except branches.
FailureMeta(e) ==
    [ NoInfo EXCEPT !.kind = "meta", !.progress = 0,
                    !.error = e.cause, !.error_type = e.error_type ]

\* What Celery stores when the task body raises: the exception itself.
RaisedInfo(e) ==
    [ NoInfo EXCEPT !.kind = "exc", !.error = e.cause, !.error_type = e.class ]

NoExc == [ class |-> "", error_type |-> "", cause |-> "" ]

\* raise ValueError(...) -> except ValueError
ValueErr(cause) ==
    [ class |-> "ValueError", error_type |-> "ValidationError", cause |-> cause ]

\* raise ImportError(...) -> except ImportError
ImportErr(cause) ==
    [ class |-> "ImportError", error_type |-> "ImportError", cause |-> cause ]

\* Variant: the engine's exception is not wrapped and is handled as a
\* ValueError.
RuntimeErrAsValueErr(cause) ==
    [ class |-> "ValueError", error_type |-> "ValidationError", cause |-> cause ]

\* raise RuntimeError(...) -> except RuntimeError
RuntimeErr(cause) ==
    [ class |-> "RuntimeError", error_type |-> "RuntimeError", cause |-> cause ]

\* anything else -> except Exception, error_type = type(exc).__name__
UnexpectedErr(cause) ==
    [ class |-> "ConnectionError", error_type |-> "ConnectionError", cause |-> cause ]

NoRec == [ status |-> "absent", analysis_text |-> None, query |-> None ]

NoPoll == [ http |-> 0, state |-> "", progress |-> 0,
            hasResult |-> FALSE, result |-> None,
            hasError |-> FALSE, error |-> "", error_type |-> "" ]

\* No read-only endpoint other than task_status for the task id was called.
NoLookup ==
    [ endpoint |-> "", id |-> "", http |-> 0, body |-> "", progress |-> 0,
      fault |-> FALSE ]

\* No kickoff was called yet.
NoCrew ==
    [ phase |-> "idle", next |-> 1, active |-> {}, log |-> << >>,
      calls |-> 0 ]

\* The jobs that share the data directory, and the values uuid.uuid4() may
\* give to file_id.
Jobs == 1 .. MaxJobs
FileIds == 1 .. (MaxJobs + 1)

\* A job that has not been submitted: no file_path yet.
NoJob == [ path |-> 0, phase |-> "new", error |-> "", deliveries |-> 0 ]

\* An empty data directory, no file_id generated, no os.remove made.
NoDocs ==
    [ disk |-> {}, used |-> {}, removals |-> {}, job |-> [ j \in Jobs |-> NoJob ] ]

\* No operation of db.py was called yet.
NoOp == [ op |-> "", job_id |-> "" ]

\* Observations: engineCalls counts the kickoff calls; startState is the
\* tracker state the running execution found at delivery; engineText and
\* engineRaised are the outcome of the running execution's kickoff;
\* removeFailed and ledgerFault record that an os.remove raised and that a
\* ledger operation was skipped or raised. oversize, defect and blankQuery
\* describe the upload of the request, queueDown tells that delay() raised,
\* syncOutcome is how the synchronous request's analysis ended and
\* syncEngineCalled that it called run_crew; earlyFailure tells that an
\* execution has ended FAILURE without its engine call having returned.
NoObs == [ engineCalls |-> 0, startState |-> "", engineText |-> None,
           engineRaised |-> FALSE, removeFailed |-> FALSE,
           ledgerFault |-> FALSE, oversize |-> FALSE, defect |-> "none",
           blankQuery |-> FALSE, queueDown |-> FALSE, syncOutcome |-> "none",
           syncEngineCalled |-> FALSE, earlyFailure |-> FALSE ]

Init ==
    /\ hasCelery \in BOOLEAN
    /\ hasDb \in BOOLEAN
    /\ hasAi \in BOOLEAN
    /\ api = "idle"
    /\ http = 0
    /\ file = FALSE
    /\ query = None
    /\ queue = 0
    /\ deliveries = 0
    /\ pc = "idle"
    /\ state = "PENDING"
    /\ info = NoInfo
    /\ result = None
    /\ exc = NoExc
    /\ ledger = NoRec
    /\ table = << >>
    /\ now = 0
    /\ dbOp = NoOp
    /\ poll = NoPoll
    /\ lookup = NoLookup
    /\ crew = NoCrew
    /\ docs = NoDocs
    /\ obs = NoObs

\* ---------------------------------------------------------- Document Store

\* `if os.path.exists(file_path): try: os.remove(file_path) except: ...`
\* removed tells whether os.remove succeeds; a failure is swallowed.
FileAfterCleanup(removed) == IF file /\ removed THEN FALSE ELSE file

\* Observation: an os.remove of the document raised.
ObsAfterCleanup(removed) ==
    [ obs EXCEPT !.removeFailed = @ \/ (file /\ ~removed) ]

\* ------------------------------------------------------------------ ledger

\* db.save_new: INSERT of a row with the column defaults (status "queued",
\* analysis_text NULL).
SaveNewRow(q) == [ status |-> "queued", analysis_text |-> None, query |-> q ]

\* Variant: the update rewrites the whole row, the query included.
UpdateResultRowWhole(rec, text, status) ==
    IF rec = NoRec THEN rec
    ELSE [ status |-> status, analysis_text |-> text, query |-> None ]

\* db.update_result: UPDATE of the first row with that job_id, nothing when
\* there is none.
UpdateResultRow(rec, text, status) ==
    IF rec = NoRec THEN rec
    ELSE [ rec EXCEPT !.analysis_text = text, !.status = status ]

\* ------------------------------------------------------------ the upload

\* The first defect of an upload that the endpoints check before reading its
\* size limit: no filename, an extension other than .pdf, no content.
UploadDefect(name, size) ==
    IF name = <<>> THEN "noname"
    ELSE IF name[Len(name)] \notin { ".pdf", ".PDF" } THEN "ext"
    ELSE IF size = 0 THEN "empty"
    ELSE "none"

\* Observation of the upload a request carries.
ObsUpload(name, size, q) ==
    [ obs EXCEPT !.oversize = size > MaxUploadBytes,
                 !.defect = UploadDefect(name, size),
                 !.blankQuery = q \in { <<>>, << Space >> } ]

\* ------------------------------------------- POST /analyze-document-async

\* Variant: the pre-flight checks without the size limit.
AsyncPreflightNoLimit(name, size) ==
    IF ~hasCelery THEN 503
    ELSE IF ~hasAi THEN 503
    ELSE IF name = <<>> THEN 400
    ELSE IF ~EndsWithPdf(name) THEN 400
    ELSE IF size = 0 THEN 400
    ELSE 0

\* The pre-flight checks of analyze_document_async: the status code they
\* answer, 0 when the upload passes.
AsyncPreflight(name, size) ==
    IF ~hasCelery THEN 503
    ELSE IF ~hasAi THEN 503
    ELSE IF name = <<>> THEN 400
    ELSE IF ~EndsWithPdf(name) THEN 400
    ELSE IF size = 0 THEN 400
    ELSE IF size > MaxUploadBytes THEN 400
    ELSE 0

\* A request that the pre-flight checks reject: nothing is written.
SubmitRejected(name, size) ==
    /\ api = "idle"
    /\ AsyncPreflight(name, size) # 0
    /\ http' = AsyncPreflight(name, size)
    /\ api' = "done"
    /\ obs' = ObsUpload(name, size, << "q" >>)
    /\ UNCHANGED << cfgVars, sideVars, file, query, queue, deliveries, workerVars,
                    backendVars, ledger, poll >>

\* The document is written and run_crew_task.delay succeeds.
SubmitEnqueued(name, size, q) ==
    /\ api = "idle"
    /\ AsyncPreflight(name, size) = 0
    /\ file' = TRUE
    /\ query' = EnqueuedQuery(q)
    /\ queue' = queue + 1
    /\ api' = "enqueued"
    /\ obs' = ObsUpload(name, size, q)
    /\ UNCHANGED << cfgVars, sideVars, http, deliveries, workerVars, backendVars,
                    ledger, poll >>

\* Variant: run_crew_task.delay raises and the document is left in place.
SubmitQueueDownNoCleanup(name, size, removed) ==
    /\ api = "idle"
    /\ AsyncPreflight(name, size) = 0
    /\ file' = TRUE
    /\ obs' = [ ObsUpload(name, size, << "q" >>) EXCEPT !.queueDown = TRUE ]
    /\ http' = 503
    /\ api' = "done"
    /\ UNCHANGED << cfgVars, sideVars, query, queue, deliveries, workerVars,
                    backendVars, ledger, poll >>

\* The document is written and run_crew_task.delay raises: the document is
\* removed again (best effort) and the answer is 503.
SubmitQueueDown(name, size, removed) ==
    /\ api = "idle"
    /\ AsyncPreflight(name, size) = 0
    /\ file' = ~removed
    /\ obs' = [ ObsUpload(name, size, << "q" >>) EXCEPT
                    !.removeFailed = @ \/ ~removed, !.queueDown = TRUE ]
    /\ http' = 503
    /\ api' = "done"
    /\ UNCHANGED << cfgVars, sideVars, query, queue, deliveries, workerVars,
                    backendVars, ledger, poll >>

\* Variant: the answer reflects the job's state, 500 once the job has failed.
AsyncSaveAndRespondJobState(saved) ==
    /\ api = "enqueued"
    /\ ledger' = IF hasDb /\ saved THEN SaveNewRow(query) ELSE ledger
    /\ obs' = [ obs EXCEPT !.ledgerFault = @ \/ ~(hasDb /\ saved) ]
    /\ http' = IF state = "FAILURE" THEN 500 ELSE 200
    /\ api' = "done"
    /\ UNCHANGED << cfgVars, sideVars, file, query, queue, deliveries, workerVars,
                    backendVars, poll >>

\* `if _has_db: try: save_new(...) except: print`, then the queued answer.
\* saved tells whether save_new commits.
AsyncSaveAndRespond(saved) ==
    /\ api = "enqueued"
    /\ ledger' = IF hasDb /\ saved THEN SaveNewRow(query) ELSE ledger
    /\ obs' = [ obs EXCEPT !.ledgerFault = @ \/ ~(hasDb /\ saved) ]
    /\ http' = 200
    /\ api' = "done"
    /\ UNCHANGED << cfgVars, sideVars, file, query, queue, deliveries, workerVars,
                    backendVars, poll >>

\* -------------------------------------------------- POST /analyze-document

\* Variant: the pre-flight checks without the test for empty content.
SyncPreflightNoEmptyCheck(name, size) ==
    IF ~hasAi THEN 503
    ELSE IF name = <<>> THEN 400
    ELSE IF ~EndsWithPdf(name) THEN 400
    ELSE IF size > MaxUploadBytes THEN 400
    ELSE 0

\* The pre-flight checks of analyze_document (main.py:83-114): the status
\* code they answer, 0 when the upload passes.
SyncPreflight(name, size) ==
    IF ~hasAi THEN 503
    ELSE IF name = <<>> THEN 400
    ELSE IF ~EndsWithPdf(name) THEN 400
    ELSE IF size = 0 THEN 400
    ELSE IF size > MaxUploadBytes THEN 400
    ELSE 0

\* The query handed to run_crew by analyze_document (main.py:127-142).
SyncQuery(q) == Strip(IF IsBlank(q) THEN DefaultQuery ELSE q)

\* How the analysis of a synchronous request may end: the import of
\* worker_task fails; run_crew returns a report or nothing; run_crew raises
\* with a rate limit, an authentication, a "No readable content" or another
\* message.
SyncOutcomes ==
    { "import_failed", "ok", "empty", "rate_limit", "auth", "unreadable",
      "error" }

\* The status code analyze_document answers for an outcome
\* (main.py:131-197). An empty result raises HTTPException(500) inside the
\* try whose `except Exception` answers 500 as well.
SyncStatus(outcome) ==
    IF outcome = "ok" THEN 200
    ELSE IF outcome = "rate_limit" THEN 429
    ELSE IF outcome = "auth" THEN 503
    ELSE IF outcome = "unreadable" THEN 400
    ELSE 500

\* Variant: an os.remove that raises in the finally block escapes it and the
\* request is answered 500.
SyncResponseCleanupEscalates(outcome, removed) ==
    IF removed THEN SyncStatus(outcome) ELSE 500

\* The answer after the finally block (main.py:199-206): the cleanup's
\* exception is caught and printed, the answer is the one already decided.
SyncResponse(outcome, removed) == SyncStatus(outcome)

\* A synchronous request that the pre-flight checks reject.
SyncRejected(name, size) ==
    /\ api = "idle"
    /\ SyncPreflight(name, size) # 0
    /\ http' = SyncPreflight(name, size)
    /\ api' = "sync_done"
    /\ obs' = ObsUpload(name, size, << "q" >>)
    /\ UNCHANGED << cfgVars, sideVars, file, query, queue, deliveries, workerVars,
                    backendVars, ledger, poll >>

\* The document of a synchronous request is written and the query is
\* defaulted (main.py:116-129).
SyncWritten(name, size, q) ==
    /\ api = "idle"
    /\ SyncPreflight(name, size) = 0
    /\ file' = TRUE
    /\ query' = SyncQuery(q)
    /\ api' = "sync_run"
    /\ obs' = ObsUpload(name, size, q)
    /\ UNCHANGED << cfgVars, sideVars, http, queue, deliveries, workerVars,
                    backendVars, ledger, poll >>

\* os.makedirs, open or write raises: `except Exception` answers 500. The
\* finally block removes the file when open had created it (created) and
\* os.remove succeeds (removed).
SyncWriteFails(name, size, created, removed) ==
    /\ api = "idle"
    /\ SyncPreflight(name, size) = 0
    /\ http' = 500
    /\ file' = (created /\ ~removed)
    /\ api' = "sync_done"
    /\ obs' = [ ObsUpload(name, size, << "q" >>) EXCEPT
                    !.removeFailed = @ \/ (created /\ ~removed),
                    !.syncOutcome = "write_failed" ]
    /\ UNCHANGED << cfgVars, sideVars, query, queue, deliveries, workerVars,
                    backendVars, ledger, poll >>

\* The import of run_crew, the call of run_crew (job_id is None: no ledger
\* write), the mapping of its outcome to a status code and the finally block
\* (main.py:131-206). removed tells whether os.remove succeeds.
SyncRun(outcome, removed) ==
    /\ api = "sync_run"
    /\ http' = SyncResponse(outcome, removed)
    /\ file' = FileAfterCleanup(removed)
    /\ obs' = [ ObsAfterCleanup(removed) EXCEPT
                    !.syncOutcome = outcome,
                    !.syncEngineCalled = outcome # "import_failed" ]
    /\ api' = "sync_done"
    /\ UNCHANGED << cfgVars, sideVars, query, queue, deliveries, workerVars,
                    backendVars, ledger, poll >>

\* ---------------------------------------------------------- result backend

\* self.update_state(state=s, meta=m), and Celery's own store of a task's
\* state: the backend entry of the task id is replaced.
UpdateState(s, m) == state' = s /\ info' = m

\* -------------------------------------------------------------- task queue

\* A worker takes the task's message. task_track_started=True
\* (celery_app.py:16) makes Celery report STARTED before the body runs.
Deliver ==
    /\ queue > 0
    /\ pc = "idle"
    /\ deliveries < MaxDeliveries
    /\ queue' = queue - 1
    /\ deliveries' = deliveries + 1
    /\ pc' = "L18"
    /\ result' = None
    /\ exc' = NoExc
    /\ UpdateState("STARTED", [ NoInfo EXCEPT !.kind = "started" ])
    /\ obs' = [ obs EXCEPT !.startState = state, !.engineText = None,
                           !.engineRaised = FALSE ]
    /\ UNCHANGED << cfgVars, sideVars, apiVars, file, ledger, poll >>

\* At-least-once delivery: the broker hands out a message of a task that was
\* already delivered once more.
Redeliver ==
    /\ deliveries >= 1
    /\ deliveries + queue < MaxDeliveries
    /\ queue' = queue + 1
    /\ UNCHANGED << cfgVars, sideVars, apiVars, file, deliveries, workerVars,
                    backendVars, ledger, poll, obs >>

\* ------------------------------------------------------------ run_crew_task

\* A `raise` inside the outer try: control goes to the except branch of the
\* exception's class. The ImportError branch has no cleanup block.
Raise(e) ==
    /\ exc' = e
    /\ pc' = IF e.class = "ImportError" THEN "H_update" ELSE "H_cleanup"

\* update_state(state='PROGRESS', meta={'progress': p, ...}) followed by the
\* code up to the next effect. stored tells whether the backend write
\* succeeds; when it raises, the exception reaches `except Exception`.
Checkpoint(p, next, stored) ==
    IF stored
    THEN UpdateState("PROGRESS", ProgressMeta(p)) /\ pc' = next /\ exc' = exc
    ELSE UNCHANGED backendVars /\ Raise(UnexpectedErr("result backend write failed"))

\* celery_worker.py:18, the first statement of the body.
StartCheckpoint(stored) == Checkpoint(0, "L25", stored)

Start(stored) ==
    /\ pc = "L18"
    /\ StartCheckpoint(stored)
    /\ UNCHANGED << cfgVars, sideVars, apiVars, file, queue, deliveries, result,
                    ledger, poll, obs >>

\* celery_worker.py:24-32, input validation.
Validate(stored) ==
    /\ pc = "L25"
    /\ IF IsBlank(query)
       THEN UNCHANGED backendVars /\ Raise(ValueErr("Query cannot be empty"))
       ELSE IF ~file
       THEN UNCHANGED backendVars /\ Raise(ValueErr("File not found"))
       ELSE Checkpoint(10, "L36", stored)
    /\ UNCHANGED << cfgVars, sideVars, apiVars, file, queue, deliveries, result,
                    ledger, poll, obs >>

\* celery_worker.py:34-41, `from worker_task import run_crew`.
ImportCrew(importable, stored) ==
    /\ pc = "L36"
    /\ IF ~importable
       THEN UNCHANGED backendVars /\ Raise(ImportErr("Failed to import crew modules"))
       ELSE Checkpoint(20, "L46", stored)
    /\ UNCHANGED << cfgVars, sideVars, apiVars, file, queue, deliveries, result,
                    ledger, poll, obs >>

\* celery_worker.py:43-53, the test read of the document.
ReadCheck(readable, stored) ==
    /\ pc = "L46"
    /\ IF ~readable
       THEN UNCHANGED backendVars /\ Raise(ValueErr("Document validation failed"))
       ELSE Checkpoint(30, "L56", stored)
    /\ UNCHANGED << cfgVars, sideVars, apiVars, file, queue, deliveries, result,
                    ledger, poll, obs >>

\* celery_worker.py:56
AgentsReady(stored) ==
    /\ pc = "L56"
    /\ Checkpoint(40, "L61", stored)
    /\ UNCHANGED << cfgVars, sideVars, apiVars, file, queue, deliveries, result,
                    ledger, poll, obs >>

\* celery_worker.py:61
AnalysisStarts(stored) ==
    /\ pc = "L61"
    /\ Checkpoint(50, "L64", stored)
    /\ UNCHANGED << cfgVars, sideVars, apiVars, file, queue, deliveries, result,
                    ledger, poll, obs >>

\* worker_task.py:17-24, financial_crew.kickoff raises: the exception leaves
\* run_crew and celery_worker.py:69-70 turns it into a RuntimeError.
KickoffRaises ==
    /\ pc = "L64"
    /\ obs' = [ obs EXCEPT !.engineCalls = @ + 1, !.engineRaised = TRUE,
                           !.engineText = None ]
    /\ Raise(RuntimeErr("Analysis failed: engine raised"))
    /\ UNCHANGED << cfgVars, sideVars, apiVars, file, queue, deliveries, result,
                    backendVars, ledger, poll >>

\* worker_task.py:17-24, financial_crew.kickoff returns text.
KickoffReturns(text) ==
    /\ pc = "L64"
    /\ obs' = [ obs EXCEPT !.engineCalls = @ + 1, !.engineRaised = FALSE,
                           !.engineText = text ]
    /\ result' = text
    /\ pc' = "W26"
    /\ UNCHANGED << cfgVars, sideVars, apiVars, file, queue, deliveries, exc,
                    backendVars, ledger, poll >>

\* celery_worker.py:66-70, after run_crew returned: an empty result raises
\* ValueError, which the enclosing except turns into a RuntimeError.
AfterRunCrew ==
    IF result = <<>>
    THEN Raise(RuntimeErr("Analysis failed: returned no results"))
    ELSE pc' = "L73" /\ exc' = exc

\* worker_task.py:26-34, the ledger write of run_crew (job_id is the task id)
\* and its return. outcome: "ok" (update_result commits), "import" (db cannot
\* be imported: ignored) or "raise" (update_result raises: only ImportError is
\* caught, so the exception leaves run_crew).
PersistResult(outcome) ==
    /\ pc = "W26"
    /\ ledger' = IF outcome = "ok"
                 THEN UpdateResultRow(ledger, ResultStr(result), "finished")
                 ELSE ledger
    /\ IF outcome = "raise"
       THEN Raise(RuntimeErr("Analysis failed: ledger write raised"))
       ELSE AfterRunCrew
    /\ obs' = [ obs EXCEPT !.ledgerFault = @ \/ outcome # "ok" ]
    /\ UNCHANGED << cfgVars, sideVars, apiVars, file, queue, deliveries, result,
                    backendVars, poll >>

\* celery_worker.py:73
AnalysisComplete(stored) ==
    /\ pc = "L73"
    /\ Checkpoint(80, "L76", stored)
    /\ UNCHANGED << cfgVars, sideVars, apiVars, file, queue, deliveries, result,
                    ledger, poll, obs >>

\* celery_worker.py:75-81, the blank check of str(result).
Finalize(stored) ==
    /\ pc = "L76"
    /\ IF IsBlank(ResultStr(result))
       THEN UNCHANGED backendVars
            /\ Raise(ValueErr("Analysis completed but generated empty results"))
       ELSE Checkpoint(90, "L86", stored)
    /\ UNCHANGED << cfgVars, sideVars, apiVars, file, queue, deliveries, result,
                    ledger, poll, obs >>

\* celery_worker.py:85-91, cleanup on the success path.
SuccessCleanup(removed) ==
    /\ pc = "L86"
    /\ file' = FileAfterCleanup(removed)
    /\ obs' = ObsAfterCleanup(removed)
    /\ pc' = "L94"
    /\ UNCHANGED << cfgVars, sideVars, apiVars, queue, deliveries, result, exc,
                    backendVars, ledger, poll >>

\* The value stored for a task that returned (celery_worker.py:94-105).
ReturnValue == SuccessReturn(ResultStr(result))

\* celery_worker.py:94-105: the body returns and Celery stores SUCCESS with
\* the returned dict; the message is done.
ReturnSuccess ==
    /\ pc = "L94"
    /\ UpdateState("SUCCESS", ReturnValue)
    /\ pc' = "idle"
    /\ UNCHANGED << cfgVars, sideVars, apiVars, file, queue, deliveries, result, exc,
                    ledger, poll, obs >>

\* The cleanup block of the ValueError, RuntimeError and Exception branches
\* (celery_worker.py:111-117, 149-155, 172-178).
HandlerCleanup(removed) ==
    /\ pc = "H_cleanup"
    /\ file' = FileAfterCleanup(removed)
    /\ obs' = ObsAfterCleanup(removed)
    /\ pc' = "H_update"
    /\ UNCHANGED << cfgVars, sideVars, apiVars, queue, deliveries, result, exc,
                    backendVars, ledger, poll >>

\* Variant: the except branches also mark the job's ledger record failed.
HandlerUpdateMarksLedger ==
    /\ pc = "H_update"
    /\ UpdateState("FAILURE", FailureMeta(exc))
    /\ ledger' = UpdateResultRow(ledger, None, "failed")
    /\ pc' = "H_raise"
    /\ UNCHANGED << cfgVars, sideVars, apiVars, file, queue, deliveries, result, exc,
                    poll, obs >>

\* The FAILURE update_state of the except branches
\* (celery_worker.py:119-127, 134-142, 157-165, 181-189).
HandlerUpdate ==
    /\ pc = "H_update"
    /\ UpdateState("FAILURE", FailureMeta(exc))
    /\ pc' = "H_raise"
    /\ UNCHANGED << cfgVars, sideVars, apiVars, file, queue, deliveries, result, exc,
                    ledger, poll, obs >>

\* Variant: the except branch does not re-raise, the body ends normally and
\* Celery stores SUCCESS with the value returned (None).
HandlerRaiseSwallowed ==
    /\ pc = "H_raise"
    /\ UpdateState("SUCCESS", SuccessReturn(None))
    /\ pc' = "idle"
    /\ UNCHANGED << cfgVars, sideVars, apiVars, file, queue, deliveries, result, exc,
                    ledger, poll, obs >>

\* `raise ve` / `raise ie` / `raise re` / `raise exc`: the exception leaves
\* the task body and Celery marks the task FAILURE with the exception as its
\* result.
HandlerRaise ==
    /\ pc = "H_raise"
    /\ UpdateState("FAILURE", RaisedInfo(exc))
    /\ pc' = "idle"
    /\ obs' = [ obs EXCEPT !.earlyFailure = @ \/ obs.engineText = None ]
    /\ UNCHANGED << cfgVars, sideVars, apiVars, file, queue, deliveries, result, exc,
                    ledger, poll >>

\* ------------------------------------------------- GET /task-status/{id}

\* Variant: the SUCCESS branch falls through to the default progress.
ReportedProgressNoSuccess(st, inf) ==
    IF st = "PROGRESS" THEN inf.progress ELSE 0

\* The progress task_status reports for a backend entry (main.py:325-371):
\* the checkpoint's value while PROGRESS, 100 for SUCCESS, 0 otherwise.
ReportedProgress(st, inf) ==
    IF st = "PROGRESS" THEN inf.progress
    ELSE IF st = "SUCCESS" THEN 100
    ELSE 0

\* The answer of task_status for a backend entry. For FAILURE the handler
\* calls info.get(...): info is the dict of the FAILURE update_state until
\* the exception raised by the task is stored, and an exception object
\* afterwards, on which .get raises; `except Exception` answers 500.
TaskStatus(st, inf) ==
    IF ~hasCelery THEN [ NoPoll EXCEPT !.http = 503 ]
    ELSE IF st = "SUCCESS"
    THEN [ NoPoll EXCEPT !.http = 200, !.state = st,
                         !.progress = ReportedProgress(st, inf),
                         !.hasResult = TRUE, !.result = inf.result ]
    ELSE IF st = "FAILURE" /\ inf.kind = "exc"
    THEN [ NoPoll EXCEPT !.http = 500 ]
    ELSE IF st = "FAILURE"
    THEN [ NoPoll EXCEPT !.http = 200, !.state = st,
                         !.progress = ReportedProgress(st, inf),
                         !.hasError = TRUE, !.error = inf.error,
                         !.error_type = inf.error_type ]
    ELSE [ NoPoll EXCEPT !.http = 200, !.state = st,
                         !.progress = ReportedProgress(st, inf) ]

\* A client polls the task id.
Poll ==
    /\ poll' = TaskStatus(state, info)
    /\ UNCHANGED << cfgVars, sideVars, apiVars, file, queue, deliveries, workerVars,
                    backendVars, ledger, obs >>

\* --------------------------------------------- other read-only endpoints

\* The id of the job's task, an id that no submission produced, and an id
\* of white space.
TaskId == "task"
Ids == { TaskId, "unknown", " " }

\* `not task_id or task_id.strip() == ""`
BlankId(id) == id = " "

\* AsyncResult(task_id): the backend entry of the task id; Celery answers
\* PENDING with no info for an id it holds no entry of.
BackendEntry(id) ==
    IF id = TaskId THEN << state, info >> ELSE << "PENDING", NoInfo >>

\* get_by_job(job_id): the row of the job's task id, none for another id.
GetByJob(id) == IF id = TaskId THEN ledger ELSE NoRec

\* What the bodies of the answers carry that the model keeps.
Answer(endpoint, id, code, body) ==
    [ NoLookup EXCEPT !.endpoint = endpoint, !.id = id, !.http = code,
                      !.body = body ]

\* Variant: task_status answers 404 for an id the backend has no entry of.
TaskStatusOfUnknown404(id) ==
    IF ~hasCelery THEN Answer("task-status", id, 503, "")
    ELSE IF BlankId(id) THEN Answer("task-status", id, 400, "")
    ELSE IF BackendEntry(id)[1] = "PENDING"
    THEN Answer("task-status", id, 404, "")
    ELSE [ Answer("task-status", id,
                  TaskStatus(BackendEntry(id)[1], BackendEntry(id)[2]).http,
                  TaskStatus(BackendEntry(id)[1], BackendEntry(id)[2]).state)
             EXCEPT !.progress =
                 TaskStatus(BackendEntry(id)[1], BackendEntry(id)[2]).progress ]

\* task_status (main.py:313-376) for any id: 503 without Celery, 400 for a
\* blank id, else the answer for the backend entry of the id.
TaskStatusOf(id) ==
    IF ~hasCelery THEN Answer("task-status", id, 503, "")
    ELSE IF BlankId(id) THEN Answer("task-status", id, 400, "")
    ELSE [ Answer("task-status", id,
                  TaskStatus(BackendEntry(id)[1], BackendEntry(id)[2]).http,
                  TaskStatus(BackendEntry(id)[1], BackendEntry(id)[2]).state)
             EXCEPT !.progress =
                 TaskStatus(BackendEntry(id)[1], BackendEntry(id)[2]).progress ]

\* analysis_record (main.py:384-410): 503 without the database, 400 for a
\* blank id, 500 when get_by_job raises (read is FALSE), 404 when there is
\* no row, else 200 with the row's status.
AnalysisRecordOf(id, read) ==
    IF ~hasDb THEN Answer("analysis", id, 503, "")
    ELSE IF BlankId(id) THEN Answer("analysis", id, 400, "")
    ELSE IF ~read THEN [ Answer("analysis", id, 500, "") EXCEPT !.fault = TRUE ]
    ELSE IF GetByJob(id) = NoRec THEN Answer("analysis", id, 404, "")
    ELSE Answer("analysis", id, 200, GetByJob(id).status)

\* Variant: the health check refuses to answer without the AI credential.
HealthAnswerNeedsAi ==
    IF hasAi THEN Answer("health", "", 200, "healthy")
    ELSE Answer("health", "", 503, "degraded")

\* health_check (main.py:439-462): always 200; overall is "healthy" when the
\* AI service is available and "degraded" otherwise.
HealthAnswer ==
    Answer("health", "", 200, IF hasAi THEN "healthy" ELSE "degraded")

\* root (main.py:61-74): always 200 with the three availability flags.
RootAnswer == Answer("root", "", 200, "running")

\* celery_status (main.py:412-437): always 200; inspect's exceptions are
\* caught and answered in the body.
CeleryStatusAnswer ==
    Answer("celery-status", "", 200,
           IF hasCelery THEN "Celery available" ELSE "Celery not available")

\* The frame of every read-only endpoint: only the answer is new.
ReadOnly ==
    UNCHANGED << cfgVars, dbVars, crew, docs, apiVars, file, queue, deliveries,
                 workerVars, backendVars, ledger, poll, obs >>

\* A client polls task-status with an id that is not the job's task id.
PollOther(id) ==
    /\ id # TaskId
    /\ lookup' = TaskStatusOf(id)
    /\ ReadOnly

\* A client requests analysis/{job_id}.
AnalysisRecord(id, read) ==
    /\ lookup' = AnalysisRecordOf(id, read)
    /\ ReadOnly

\* A client requests /health.
HealthCheck ==
    /\ lookup' = HealthAnswer
    /\ ReadOnly

\* A client requests /.
Root ==
    /\ lookup' = RootAnswer
    /\ ReadOnly

\* A client requests /celery-status.
CeleryStatus ==
    /\ lookup' = CeleryStatusAnswer
    /\ ReadOnly

\* ----------------------------------------------------------- specification

\* The two submission endpoints.
SubmissionNext ==
    \/ \E name \in Filenames, size \in FileSizes : SubmitRejected(name, size)
    \/ \E name \in Filenames, size \in FileSizes, q \in Queries :
           SubmitEnqueued(name, size, q)
    \/ \E name \in Filenames, size \in FileSizes, removed \in BOOLEAN :
           SubmitQueueDown(name, size, removed)
    \/ \E saved \in BOOLEAN : AsyncSaveAndRespond(saved)
    \/ \E name \in Filenames, size \in FileSizes : SyncRejected(name, size)
    \/ \E name \in Filenames, size \in FileSizes, q \in Queries :
           SyncWritten(name, size, q)
    \/ \E name \in Filenames, size \in FileSizes, created, removed \in BOOLEAN :
           SyncWriteFails(name, size, created, removed)
    \/ \E outcome \in SyncOutcomes, removed \in BOOLEAN : SyncRun(outcome, removed)

\* A worker: it takes the task and executes run_crew_task step by step.
WorkerNext ==
    \/ Deliver
    \/ \E stored \in BOOLEAN : Start(stored)
    \/ \E stored \in BOOLEAN : Validate(stored)
    \/ \E importable \in BOOLEAN, stored \in BOOLEAN : ImportCrew(importable, stored)
    \/ \E readable \in BOOLEAN, stored \in BOOLEAN : ReadCheck(readable, stored)
    \/ \E stored \in BOOLEAN : AgentsReady(stored)
    \/ \E stored \in BOOLEAN : AnalysisStarts(stored)
    \/ KickoffRaises
    \/ \E text \in EngineTexts : KickoffReturns(text)
    \/ \E outcome \in { "ok", "import", "raise" } : PersistResult(outcome)
    \/ \E stored \in BOOLEAN : AnalysisComplete(stored)
    \/ \E stored \in BOOLEAN : Finalize(stored)
    \/ \E removed \in BOOLEAN : SuccessCleanup(removed)
    \/ ReturnSuccess
    \/ \E removed \in BOOLEAN : HandlerCleanup(removed)
    \/ HandlerUpdate
    \/ HandlerRaise

Next ==
    \/ SubmissionNext
    \/ WorkerNext
    \/ Redeliver
    \/ Poll

Spec == Init /\ [][Next]_vars

\* The worker process dies while it executes the task. The message was
\* acknowledged when the worker took it (celery_app.py sets neither
\* task_acks_late nor task_reject_on_worker_lost), so the broker does not
\* hold it any more and nothing is written to the result backend.
Crash ==
    /\ pc # "idle"
    /\ pc' = "idle"
    /\ UNCHANGED << cfgVars, sideVars, apiVars, file, queue, deliveries, result,
                    exc, backendVars, ledger, poll, obs >>

\* The job with worker crashes.
NextCrash ==
    \/ Next
    \/ Crash

SpecCrash == Init /\ [][NextCrash]_vars

\* The job, its task delivered once, together with the other read-only
\* endpoints.
NextReads ==
    \/ SubmissionNext
    \/ WorkerNext
    \/ \E id \in Ids : PollOther(id)
    \/ \E id \in Ids, read \in BOOLEAN : AnalysisRecord(id, read)
    \/ HealthCheck
    \/ Root
    \/ CeleryStatus

SpecReads == Init /\ [][NextReads]_vars

\* ------------------------------------------------- the ledger operations

\* The variables of the job, which the operations of db.py leave alone.
jobVars ==
    << cfgVars, apiVars, file, queue, deliveries, workerVars, backendVars,
       ledger, poll, lookup, crew, docs, obs >>

\* Values of the job_id argument.
JobIds == { "a", "b" }

\* The positions of the rows that `where(Analysis.job_id == job_id)` selects.
RowsOf(job_id) == { i \in DOMAIN table : table[i].job_id = job_id }

\* The position `.first()` answers: the row inserted first.
FirstRow(job_id) ==
    CHOOSE i \in RowsOf(job_id) : \A k \in RowsOf(job_id) : i <= k

\* Values of the filename and file_path arguments.
RowFiles == { "f", "g" }

\* The system clock advances between two reads.
Tick ==
    /\ now < MaxClock
    /\ now' = now + 1
    /\ UNCHANGED << jobVars, table, dbOp >>

\* db.save_new: the row is added and committed with the column defaults and
\* both timestamps read from the clock; no existing row is looked up and
\* job_id carries an index, not a unique constraint.
LedgerSaveNew(job_id, f, q) ==
    /\ Len(table) < MaxRows
    /\ table' = Append(table,
                    [ job_id |-> job_id, filename |-> f, file_path |-> f,
                      created_at |-> now, updated_at |-> now,
                      rec |-> SaveNewRow(q) ])
    /\ dbOp' = [ op |-> "save_new", job_id |-> job_id ]
    /\ UNCHANGED << jobVars, now >>

\* db.update_result: analysis_text, status and updated_at of the first row
\* of the job_id are set, nothing happens when there is none.
LedgerUpdateResult(job_id, text) ==
    /\ table' = IF RowsOf(job_id) = {} THEN table
                ELSE [ table EXCEPT
                           ![FirstRow(job_id)].rec =
                               UpdateResultRow(@, text, "finished"),
                           ![FirstRow(job_id)].updated_at = now ]
    /\ dbOp' = [ op |-> "update_result", job_id |-> job_id ]
    /\ UNCHANGED << jobVars, now >>

NextLedger ==
    \/ Tick
    \/ \E job_id \in JobIds, f \in RowFiles :
           LedgerSaveNew(job_id, f, DefaultQuery)
    \/ \E job_id \in JobIds, text \in EngineTexts :
           LedgerUpdateResult(job_id, text)

\* db.py reads none of the configuration flags of main.py: the operations
\* are run with all of them set.
InitLedger == Init /\ hasCelery /\ hasDb /\ hasAi

SpecLedger == InitLedger /\ [][NextLedger]_vars

\* ---------------------------------------------- the stages of one kickoff

\* The variables that Crew.kickoff's stages leave alone.
notCrewVars ==
    << cfgVars, dbVars, lookup, docs, apiVars, file, queue, deliveries,
       workerVars, backendVars, ledger, poll, obs >>

\* Variant: the analysis task is listed before the verification task.
CrewTasksAnalysisFirst ==
    << "analyze_financial_document", "verification", "investment_analysis",
       "risk_assessment" >>

\* tasks=[verification, analyze_financial_document, investment_analysis,
\* risk_assessment] (worker_task.py:19).
CrewTasks ==
    << "verification", "analyze_financial_document", "investment_analysis",
       "risk_assessment" >>

\* process=Process.sequential (worker_task.py:20) with async_execution=False
\* on every task (task.py:36,67,98,128): the next task of the list starts
\* when no task is being executed.
StageMayStart == crew.active = {}

\* financial_crew.kickoff(...) is called (worker_task.py:24). One process
\* makes one call at a time (worker_concurrency=1, and analyze_document
\* calls run_crew without awaiting anything).
CrewKickoff ==
    /\ crew.phase \in { "idle", "returned", "raised" }
    /\ crew.calls < MaxKickoffs
    /\ crew' = [ NoCrew EXCEPT !.phase = "running", !.calls = crew.calls + 1 ]
    /\ UNCHANGED notCrewVars

\* The next task of the list starts.
StageStart ==
    /\ crew.phase = "running"
    /\ crew.next <= Len(CrewTasks)
    /\ StageMayStart
    /\ crew' = [ crew EXCEPT
                     !.active = @ \cup { CrewTasks[crew.next] },
                     !.log = Append(@, << "start", CrewTasks[crew.next] >>) ]
    /\ UNCHANGED notCrewVars

\* The task being executed returns its output, or raises and ends the
\* kickoff with that exception.
StageEnd(name, raises) ==
    /\ crew.phase = "running"
    /\ name \in crew.active
    /\ crew' = IF raises
               THEN [ crew EXCEPT !.phase = "raised", !.active = {} ]
               ELSE [ crew EXCEPT
                          !.active = @ \ { name },
                          !.next = @ + 1,
                          !.log = Append(@, << "end", name >>) ]
    /\ UNCHANGED notCrewVars

\* The last task has returned: kickoff returns its output.
CrewReturn ==
    /\ crew.phase = "running"
    /\ crew.next > Len(CrewTasks)
    /\ crew.active = {}
    /\ crew' = [ crew EXCEPT !.phase = "returned" ]
    /\ UNCHANGED notCrewVars

NextCrew ==
    \/ CrewKickoff
    \/ StageStart
    \/ \E name \in crew.active, raises \in BOOLEAN : StageEnd(name, raises)
    \/ CrewReturn

SpecCrew == Init /\ [][NextCrew]_vars

\* ------------------------------------- the data directory of several jobs

\* The variables that the documents of other jobs have no part in.
notDocsVars ==
    << cfgVars, dbVars, lookup, crew, apiVars, file, queue, deliveries,
       workerVars, backendVars, ledger, poll, obs >>

\* Variant: file_id is a value that may have been generated before.
AnyFileId == FileIds

\* file_id = str(uuid.uuid4()) (main.py:116, 252): a value that no earlier
\* call has returned.
NewFileIds == FileIds \ docs.used

\* `if os.path.exists(file_path): try: os.remove(file_path) except: ...`
\* made by job j for its own file_path; removed tells whether os.remove
\* succeeds.
RemoveOwn(j, removed) ==
    IF docs.job[j].path \in docs.disk /\ removed
    THEN [ docs EXCEPT !.disk = @ \ { docs.job[j].path },
                       !.removals = @ \cup { << j, docs.job[j].path >> } ]
    ELSE docs

\* A submission endpoint writes the upload of job j to
\* data/financial_document_{file_id}.pdf (main.py:116-125, 252-259).
StoreWrite(j, id, mode) ==
    /\ docs.job[j].phase = "new"
    /\ id \in NewFileIds
    /\ docs' = [ docs EXCEPT !.disk = @ \cup { id }, !.used = @ \cup { id },
                             !.job[j].path = id, !.job[j].phase = mode ]
    /\ UNCHANGED notDocsVars

\* analyze_document ends: the finally block removes the job's file
\* (main.py:199-206).
StoreSyncFinally(j, removed) ==
    /\ docs.job[j].phase = "sync"
    /\ docs' = [ RemoveOwn(j, removed) EXCEPT !.job[j].phase = "answered" ]
    /\ UNCHANGED notDocsVars

\* analyze_document_async: delay accepts the task (main.py:264-270).
StoreEnqueue(j) ==
    /\ docs.job[j].phase = "async"
    /\ docs' = [ docs EXCEPT !.job[j].phase = "queued" ]
    /\ UNCHANGED notDocsVars

\* analyze_document_async: delay raises and the job's file is removed
\* (main.py:272-282).
StoreQueueDown(j, removed) ==
    /\ docs.job[j].phase = "async"
    /\ docs' = [ RemoveOwn(j, removed) EXCEPT !.job[j].phase = "rejected" ]
    /\ UNCHANGED notDocsVars

\* A worker takes the task of job j.
StoreTake(j) ==
    /\ docs.job[j].phase = "queued"
    /\ docs.job[j].deliveries < MaxDeliveries
    /\ docs' = [ docs EXCEPT !.job[j].phase = "taken",
                             !.job[j].deliveries = @ + 1 ]
    /\ UNCHANGED notDocsVars

\* run_crew_task: `if not os.path.exists(file_path): raise ValueError("File
\* not found ...")` (celery_worker.py:28-29); the except branch then finds
\* no file to remove.
StoreValidate(j) ==
    /\ docs.job[j].phase = "taken"
    /\ docs' = IF docs.job[j].path \in docs.disk
               THEN [ docs EXCEPT !.job[j].phase = "running" ]
               ELSE [ docs EXCEPT !.job[j].phase = "failed",
                                  !.job[j].error = "File not found" ]
    /\ UNCHANGED notDocsVars

\* run_crew_task ends: the success path and the except branches other than
\* ImportError remove the job's file (celery_worker.py:85-91, 111-117,
\* 149-155, 172-178); cleanup is FALSE for the ImportError branch.
StoreWorkerEnd(j, ok, cleanup, removed) ==
    /\ docs.job[j].phase = "running"
    /\ ok => cleanup
    /\ docs' = [ (IF cleanup THEN RemoveOwn(j, removed) ELSE docs) EXCEPT
                     !.job[j].phase = IF ok THEN "succeeded" ELSE "failed",
                     !.job[j].error = IF ok THEN "" ELSE "other" ]
    /\ UNCHANGED notDocsVars

\* At-least-once delivery: the task of a job that ended is handed out again.
StoreRedeliver(j) ==
    /\ docs.job[j].phase \in { "succeeded", "failed" }
    /\ docs.job[j].deliveries < MaxDeliveries
    /\ docs' = [ docs EXCEPT !.job[j].phase = "queued" ]
    /\ UNCHANGED notDocsVars

NextStore ==
    \/ \E j \in Jobs, id \in FileIds, mode \in { "sync", "async" } :
           StoreWrite(j, id, mode)
    \/ \E j \in Jobs, removed \in BOOLEAN : StoreSyncFinally(j, removed)
    \/ \E j \in Jobs : StoreEnqueue(j)
    \/ \E j \in Jobs, removed \in BOOLEAN : StoreQueueDown(j, removed)
    \/ \E j \in Jobs : StoreTake(j)
    \/ \E j \in Jobs : StoreValidate(j)
    \/ \E j \in Jobs, ok, cleanup, removed \in BOOLEAN :
           StoreWorkerEnd(j, ok, cleanup, removed)
    \/ \E j \in Jobs : StoreRedeliver(j)

\* The submission endpoints and the worker read none of the configuration
\* flags once the upload is accepted: the jobs run with all of them set.
InitStore == Init /\ hasCelery /\ hasDb /\ hasAi

SpecStore == InitStore /\ [][NextStore]_vars

\* ------------------------------------------------------------------ claims

\* The running execution has called the engine.
EngineCalled == obs.engineRaised \/ obs.engineText # None

\* The moves of the tracker state along one execution.
TrackerMoves ==
    { << "PENDING", "STARTED" >>, << "STARTED", "PROGRESS" >>,
      << "STARTED", "FAILURE" >>, << "PROGRESS", "PROGRESS" >>,
      << "PROGRESS", "SUCCESS" >>, << "PROGRESS", "FAILURE" >>,
      << "FAILURE", "FAILURE" >> }

\* The moves C1 names: PENDING -> PROGRESS -> SUCCESS | FAILURE, PENDING ->
\* FAILURE.
ClaimedMoves ==
    { << "PENDING", "PROGRESS" >>, << "PROGRESS", "PROGRESS" >>,
      << "PROGRESS", "SUCCESS" >>, << "PROGRESS", "FAILURE" >>,
      << "PENDING", "FAILURE" >>, << "FAILURE", "FAILURE" >> }

\* C1 (as amended): while the task is delivered once, the tracker state
\* moves only PENDING -> STARTED -> PROGRESS -> SUCCESS or FAILURE, or
\* STARTED -> FAILURE, never backward, and the engine is called only while
\* the state is PROGRESS.
C1_StatusOrder ==
    [][ deliveries' <= 1 =>
          /\ state' # state => << state, state' >> \in TrackerMoves
          /\ obs'.engineCalls # obs.engineCalls => state = "PROGRESS" ]_vars

\* C1 (as stated): the tracker state moves only along PENDING -> PROGRESS ->
\* SUCCESS or FAILURE, or PENDING -> FAILURE.
C1_AsStated ==
    [][ deliveries' <= 1 =>
          /\ state' # state => << state, state' >> \in ClaimedMoves
          /\ obs'.engineCalls # obs.engineCalls => state = "PROGRESS" ]_vars

\* C1 witness: a job delivered once has succeeded after one engine call.
C1_Witness ==
    deliveries = 1 /\ state = "SUCCESS" /\ obs.engineCalls = 1 /\ pc = "idle"

\* C2: once the tracker state of a finished execution is SUCCESS or FAILURE,
\* neither the state nor the stored result or error changes again.
C2_TerminalIsFinal ==
    [][ (state \in Terminal /\ pc = "idle") =>
            (state' = state /\ info' = info) ]_vars

\* C3: an execution that found the job SUCCESS or FAILURE at delivery does
\* not call the engine.
C3_NoEngineOnRedelivery ==
    [][ obs.startState \in Terminal => obs'.engineCalls = obs.engineCalls ]_vars

\* C4: the progress values of successive answered polls never decrease.
C4_ProgressMonotone ==
    [][ (poll.http = 200 /\ poll'.http = 200) =>
            poll'.progress >= poll.progress ]_vars

\* C5: a poll reports progress 100 exactly when it reports SUCCESS, and every
\* checkpoint stored while PROGRESS is below 100.
C5_HundredIffSuccess ==
    /\ poll.http = 200 => (poll.progress = 100 <=> poll.state = "SUCCESS")
    /\ state = "PROGRESS" => info.progress < 100

\* C5 witness: a poll of a succeeded job has answered SUCCESS with progress
\* 100.
C5_Witness ==
    poll.http = 200 /\ poll.state = "SUCCESS" /\ poll.progress = 100

\* C6: the tracker entry holds a result only in SUCCESS and an error only in
\* FAILURE; PENDING, STARTED and PROGRESS hold neither, a terminal entry holds
\* exactly one, and an answered poll shows the same.
C6_ResultXorError ==
    /\ state \in { "PENDING", "STARTED", "PROGRESS" } =>
           (info.result = None /\ info.error = "")
    /\ state = "SUCCESS" => (info.result # None /\ info.error = "")
    /\ state = "FAILURE" => (info.result = None /\ info.error # "")
    /\ poll.http = 200 =>
           /\ poll.hasResult <=> poll.state = "SUCCESS"
           /\ poll.hasError <=> poll.state = "FAILURE"
           /\ poll.hasResult => poll.result # None
           /\ poll.hasError => poll.error # ""

\* C6 witness: a job failed after the engine had returned a (blank) result,
\* and the poll of the failure shows the error and no result.
C6_Witness ==
    /\ state = "FAILURE"
    /\ result # None
    /\ poll.http = 200 /\ poll.state = "FAILURE" /\ poll.hasError

\* C7: whenever the tracker state is SUCCESS or FAILURE and no os.remove of
\* the document raised, the document no longer exists.
C7_DocumentGoneAtTerminal ==
    (state \in Terminal /\ ~obs.removeFailed) => ~file

\* C8: with the ledger available (save_new and update_result both committed),
\* a submission that was answered and whose job is SUCCESS has a ledger
\* record with status "finished" and a non-null analysis_text.
C8_LedgerFinished ==
    (hasDb /\ ~obs.ledgerFault /\ api = "done" /\ state = "SUCCESS") =>
        (ledger.status = "finished" /\ ledger.analysis_text # None)

\* C9: a failing ledger write changes neither the answer to the submission
\* (200 once the task is enqueued) nor the tracker outcome: no job is FAILURE
\* because of the ledger.
C9_LedgerNotRequired ==
    /\ (api = "done" /\ query # None) => http = 200
    /\ state = "FAILURE" => info.error # "Analysis failed: ledger write raised"

\* C10: SUCCESS is stored only when the execution's engine call returned a
\* non-blank text, and the stored result is exactly that text; an execution
\* whose engine call raised or returned an empty or blank text ends FAILURE.
C10_SuccessOnlyWithReport ==
    /\ state = "SUCCESS" =>
           /\ ~obs.engineRaised
           /\ obs.engineText # None
           /\ ~IsBlank(obs.engineText)
           /\ info.result = obs.engineText
    /\ (pc = "idle" /\ EngineCalled
          /\ (obs.engineRaised \/ IsBlank(obs.engineText))) => state = "FAILURE"

\* C10 witness: a job succeeded with a report that has leading white space.
C10_Witness ==
    state = "SUCCESS" /\ info.result = << Space, "r" >>

\* C11: the ledger record never shows "finished" for a job whose execution
\* ended FAILURE, and a "finished" record holds a non-blank analysis_text,
\* equal to the result the tracker reports once the job is SUCCESS.
C11_LedgerFinishedOnlyOnSuccess ==
    /\ (pc = "idle" /\ state = "FAILURE") => ledger.status # "finished"
    /\ ledger.status = "finished" =>
           /\ ledger.analysis_text # None
           /\ ~IsBlank(ledger.analysis_text)
    /\ (ledger.status = "finished" /\ state = "SUCCESS") =>
           ledger.analysis_text = info.result

\* The first execution of the job has ended and its engine call raised.
EngineRaisedInFirstRun ==
    pc = "idle" /\ deliveries = 1 /\ obs.engineRaised

FailureKinds ==
    { "ValidationError", "ImportError", "RuntimeError", "ConnectionError" }

\* C13: a poll of a job that is FAILURE answers 200 with state FAILURE, an
\* error message and an error_type of one of the failure kinds.
C13_FailurePollAnswers ==
    [][ (state = "FAILURE" /\ poll' # poll) =>
            /\ poll'.http = 200
            /\ poll'.state = "FAILURE"
            /\ poll'.hasError /\ poll'.error # ""
            /\ poll'.error_type \in FailureKinds ]_vars

\* No document stored, no task enqueued or delivered, no engine call and no
\* ledger record.
NothingConsumed ==
    /\ ~file
    /\ queue = 0 /\ deliveries = 0
    /\ obs.engineCalls = 0 /\ ~obs.syncEngineCalled
    /\ ledger = NoRec

\* The request was answered by analyze_document_async (done) or by
\* analyze_document (sync_done).
Answered == api \in { "done", "sync_done" }

\* The endpoint that answered passes its configuration checks: the AI key is
\* set and, for analyze_document_async, Celery is importable.
Configured == hasAi /\ (api = "done" => hasCelery)

\* C14: an upload larger than 50 MiB leaves no document, no enqueued task and
\* no ledger record behind, and a configured endpoint answers it with 400.
C14_OversizeRejected ==
    (Answered /\ obs.oversize) =>
        /\ NothingConsumed
        /\ Configured => http = 400

\* C14 witness: analyze_document_async answered 400 to an oversize PDF.
C14_Witness ==
    /\ api = "done" /\ obs.oversize /\ obs.defect = "none"
    /\ http = 400

\* C15: an upload without filename, with an extension other than .pdf or
\* with 0 bytes consumes nothing, and a configured endpoint answers 400.
C15_InvalidUploadRejected ==
    (Answered /\ obs.defect \in { "noname", "ext", "empty" }) =>
        /\ NothingConsumed
        /\ Configured => http = 400

\* C15 witness: analyze_document answered 400 to a 0-byte PDF.
C15_Witness ==
    /\ api = "sync_done" /\ obs.defect = "empty"
    /\ http = 400

\* C16: an empty or white-space query is replaced by the canned prompt, which
\* is what is enqueued or passed to run_crew; the request is answered as
\* with any other query (200 for an enqueued task, 200 for a synchronous
\* analysis that returns a report).
C16_BlankQueryDefaults ==
    (obs.blankQuery /\ api # "idle") =>
        /\ query = DefaultQuery
        /\ api = "done" => http = 200
        /\ (api = "sync_done" /\ obs.syncOutcome = "ok") => http = 200
        /\ exc.cause # "Query cannot be empty"

\* C16 witness: a task was enqueued for a blank query and the worker passed
\* its validation of the query.
C16_Witness ==
    /\ obs.blankQuery /\ api = "done" /\ http = 200
    /\ query = DefaultQuery
    /\ obs.engineCalls = 1

\* C17 (as amended): when delay raises, the answer is 503, removal of the
\* document was attempted (it is gone unless os.remove raised), nothing is
\* enqueued and no ledger record is created.
C17_QueueDown ==
    obs.queueDown =>
        /\ http = 503
        /\ ~file \/ obs.removeFailed
        /\ queue = 0 /\ deliveries = 0
        /\ ledger = NoRec

\* C17 (as stated): when delay raises, the answer is 503, the document is
\* deleted and no ledger record is created.
C17_AsStated ==
    obs.queueDown =>
        /\ http = 503
        /\ ~file
        /\ ledger = NoRec

\* C17 witness: delay raised, the answer is 503 and the document is gone.
C17_Witness ==
    obs.queueDown /\ http = 503 /\ ~file

C19_SyncCleanup ==
    (api = "sync_done" /\ obs.syncOutcome # "none") =>
        /\ ~file \/ obs.removeFailed
        /\ obs.syncOutcome \in SyncOutcomes => http = SyncStatus(obs.syncOutcome)
        /\ obs.syncOutcome = "write_failed" => http = 500

\* C19 witness: the analysis succeeded, os.remove raised and the answer is
\* still 200.
C19_Witness ==
    /\ api = "sync_done" /\ obs.syncOutcome = "ok"
    /\ obs.removeFailed /\ file
    /\ http = 200

\* C20: at most one row of the Analysis table carries a given job_id (a
\* save_new for a job_id that has a row adds none).
C20_OneRowPerJobId ==
    \A i, k \in DOMAIN table : table[i].job_id = table[k].job_id => i = k

\* The columns of a row that update_result has no assignment for.
RowInput(row) ==
    << row.job_id, row.filename, row.file_path, row.rec.query,
       row.created_at >>

\* C21: a call of update_result adds and removes no row, changes no row but
\* the first one of its job_id, leaves job_id, filename, query, file_path
\* and created_at of that row as they were and does not move its updated_at
\* backward; for a job_id without a row the table is unchanged.
C21_UpdateResultPartial ==
    [][ dbOp'.op = "update_result" =>
            /\ Len(table') = Len(table)
            /\ \A i \in DOMAIN table :
                   /\ RowInput(table'[i]) = RowInput(table[i])
                   /\ table'[i].updated_at >= table[i].updated_at
                   /\ table'[i] # table[i] =>
                          /\ i \in RowsOf(dbOp'.job_id)
                          /\ \A k \in RowsOf(dbOp'.job_id) : i <= k
            /\ RowsOf(dbOp'.job_id) = {} => table' = table ]_vars

\* C21 witness: update_result has finished a row at a later tick than the
\* one it was created at, next to a row of another job_id.
C21_Witness ==
    /\ dbOp.op = "update_result"
    /\ \E i, k \in DOMAIN table :
           /\ table[i].job_id = dbOp.job_id
           /\ table[i].rec.status = "finished"
           /\ table[i].updated_at > table[i].created_at
           /\ table[k].job_id # dbOp.job_id

\* C23: without the AI credential every submission is answered 503 and
\* consumes nothing, while /, /health and /celery-status answer 200,
\* task-status answers 200 (Celery importable, id not blank) and
\* analysis/{job_id} answers 200 or 404 (database importable and readable,
\* id not blank).
C23_DegradedWithoutAi ==
    ~hasAi =>
        /\ api # "idle" => (Answered /\ http = 503)
        /\ NothingConsumed
        /\ lookup.endpoint \in { "root", "health", "celery-status" } =>
               lookup.http = 200
        /\ lookup.endpoint = "health" => lookup.body = "degraded"
        /\ (lookup.endpoint = "task-status" /\ hasCelery
                /\ ~BlankId(lookup.id)) =>
               lookup.http = 200
        /\ (lookup.endpoint = "analysis" /\ hasDb /\ ~lookup.fault
                /\ ~BlankId(lookup.id)) =>
               lookup.http \in { 200, 404 }

\* C23 witness: without the AI credential a submission was answered 503 and
\* /health then answered 200.
C23_Witness ==
    /\ ~hasAi /\ hasCelery
    /\ api = "done" /\ http = 503
    /\ lookup.endpoint = "health" /\ lookup.http = 200

\* C24: a read-only request changes nothing but its answer; task-status for
\* an id that was never submitted answers 200 in state PENDING with progress
\* 0 (Celery importable), and analysis/{job_id} for an id without a ledger
\* record answers 404 (database importable and readable).
C24_UnknownIds ==
    [][ lookup' # lookup =>
            /\ UNCHANGED << cfgVars, dbVars, crew, docs, apiVars, file, queue, deliveries,
                            workerVars, backendVars, ledger, poll, obs >>
            /\ (lookup'.endpoint = "task-status" /\ lookup'.id = "unknown"
                    /\ hasCelery) =>
                   /\ lookup'.http = 200
                   /\ lookup'.body = "PENDING"
                   /\ lookup'.progress = 0
            /\ (lookup'.endpoint = "analysis" /\ hasDb /\ ~lookup'.fault
                    /\ ~BlankId(lookup'.id)
                    /\ (lookup'.id = "unknown" \/ ledger = NoRec)) =>
                   lookup'.http = 404 ]_vars

\* C24 witness: while the job was in progress, task-status for an unknown id
\* answered 200 PENDING.
C24_Witness ==
    /\ state = "PROGRESS" /\ file
    /\ lookup.endpoint = "task-status" /\ lookup.id = "unknown"
    /\ lookup.http = 200 /\ lookup.body = "PENDING"

\* The order of the stages as the claim gives it: each stage starts and
\* ends before the next one starts.
StagesInOrder ==
    << << "start", "verification" >>, << "end", "verification" >>,
       << "start", "analyze_financial_document" >>,
       << "end", "analyze_financial_document" >>,
       << "start", "investment_analysis" >>,
       << "end", "investment_analysis" >>,
       << "start", "risk_assessment" >>, << "end", "risk_assessment" >> >>

\* C25: the stages of a kickoff start and end in the order verification,
\* financial analysis, investment advice, risk assessment, each one after the
\* previous one has ended, and at most one stage is being executed.
C25_StagesSequential ==
    /\ Cardinality(crew.active) <= 1
    /\ Len(crew.log) <= Len(StagesInOrder)
    /\ \A i \in DOMAIN crew.log : crew.log[i] = StagesInOrder[i]
    /\ crew.phase = "returned" => crew.log = StagesInOrder

\* C25 witness: the second kickoff of the process has returned after its
\* four stages.
C25_Witness ==
    /\ crew.calls = 2
    /\ crew.phase = "returned"
    /\ Len(crew.log) = 8

\* C26: no two jobs have the same file_path, every file of the data
\* directory is the document of a job, every os.remove was made by the job
\* whose document it removed, and a job fails with "File not found" only
\* after its own handler or worker removed its document.
C26_DocumentsNotShared ==
    /\ \A j, k \in Jobs :
           (j # k /\ docs.job[j].path # 0) =>
               docs.job[j].path # docs.job[k].path
    /\ \A p \in docs.disk : \E j \in Jobs : docs.job[j].path = p
    /\ \A r \in docs.removals : docs.job[r[1]].path = r[2]
    /\ \A j \in Jobs :
           docs.job[j].error = "File not found" =>
               << j, docs.job[j].path >> \in docs.removals

\* C26 witness: one job has succeeded and its document is removed while the
\* worker of another job has found its own document and is running.
C26_Witness ==
    \E j, k \in Jobs :
        /\ j # k
        /\ docs.job[j].phase = "succeeded"
        /\ docs.job[j].path \notin docs.disk
        /\ docs.job[k].phase = "running"
        /\ docs.job[k].path \in docs.disk

DocumentOrResultCauses ==
    { "File not found", "Document validation failed",
      "Analysis completed but generated empty results" }

\* C28: the query of an enqueued task is not blank, and every ValueError
\* that run_crew_task raises for it concerns the document (missing or
\* unreadable) or a blank result, never the query.
C28_QueryNeverBlankInWorker ==
    /\ (queue + deliveries > 0) => (query # None /\ ~IsBlank(query))
    /\ exc.class = "ValueError" => exc.cause \in DocumentOrResultCauses
    /\ (state = "FAILURE" /\ info.error_type = "ValidationError") =>
           info.error \in DocumentOrResultCauses

\* C28 witness: the task of a submission with a blank query passed the
\* worker's query check and failed validation of the document.
C28_Witness ==
    /\ obs.blankQuery /\ deliveries = 1
    /\ exc.class = "ValueError"
    /\ exc.cause = "Document validation failed"
    /\ state = "FAILURE"

\* C22: as long as an enqueued job is neither SUCCESS nor FAILURE, a worker
\* can take its task or make the next step of run_crew_task (so that a
\* worker that keeps working brings the job to SUCCESS or FAILURE).
C22_UnfinishedJobHasWorkerStep ==
    (queue + deliveries > 0 /\ state \notin Terminal) => ENABLED WorkerNext

====
